---- MODULE Spec2Model ----
(***************************************************************************)
(* Model of server.js: the POST /api/download handler, the URL validator,  *)
(* the shortcode extractor, the scraping pipeline and the media normalizer.*)
(*                                                                         *)
(* JavaScript strings that the code inspects character by character (the   *)
(* request url) are sequences of one-character strings.  Values the code   *)
(* only passes through (media URLs, messages) are TLA+ strings.  A missing *)
(* property or an undefined value is the string Undefined.                 *)
(***************************************************************************)
EXTENDS Integers, Sequences, FiniteSets, TLC

VARIABLES pc, body, gets, outcome, resp, sent, call, ret

vars == <<pc, body, gets, outcome, resp, sent, call, ret>>

(***************************************************************************)
(* Bounds                                                                  *)
(***************************************************************************)
\* number of requests the serving process handles concurrently
NumReq == 2
\* number of <script> elements in a fetched page
MaxScripts == 2
\* number of child nodes in a carousel
MaxEdges == 3

Req == 1..NumReq

Undefined == "undefined"

(***************************************************************************)
(* Character strings                                                       *)
(***************************************************************************)
UpperCase ==
  <<"A","B","C","D","E","F","G","H","I","J","K","L","M",
    "N","O","P","Q","R","S","T","U","V","W","X","Y","Z">>

LowerCase ==
  <<"a","b","c","d","e","f","g","h","i","j","k","l","m",
    "n","o","p","q","r","s","t","u","v","w","x","y","z">>

Digits == {"0","1","2","3","4","5","6","7","8","9"}

Range(s) == {s[i] : i \in DOMAIN s}

\* canonicalisation of one character under the regular-expression flag i
ToLower(c) ==
  IF \E i \in DOMAIN UpperCase : UpperCase[i] = c
    THEN LowerCase[CHOOSE i \in DOMAIN UpperCase : UpperCase[i] = c]
    ELSE c

LowerSeq(s) == [i \in DOMAIN s |-> ToLower(s[i])]

\* the class \w
WordChars == Range(UpperCase) \cup Range(LowerCase) \cup Digits \cup {"_"}

WordChar(c) == c \in WordChars

\* String.prototype.startsWith
StartsWith(s, p) == Len(s) >= Len(p) /\ SubSeq(s, 1, Len(p)) = p

sHTTP == <<"h","t","t","p",":","/","/">>
sHTTPS == <<"h","t","t","p","s",":","/","/">>
sWWW == <<"w","w","w",".">>
sHOST == <<"i","n","s","t","a","g","r","a","m",".","c","o","m">>
sP == <<"p">>
sREEL == <<"r","e","e","l">>
sTV == <<"t","v">>
sSTORIES == <<"s","t","o","r","i","e","s">>
sSLASH == <<"/">>

\* the four category tokens, in the order of the patterns array
Categories == <<sP, sREEL, sTV, sSTORIES>>

(***************************************************************************)
(* JavaScript values of req.body.url                                       *)
(***************************************************************************)
Str(s) == [t |-> "string", s |-> s]
Missing == [t |-> "undefined", s |-> <<>>]
Num5 == [t |-> "number", s |-> <<"5">>]

\* !url
Falsy(u) == u.t = "undefined" \/ (u.t = "string" /\ u.s = <<>>)

(***************************************************************************)
(* extractShortcode                                                        *)
(***************************************************************************)
\* the characters excluded by [^/?#]
StopChars == {"/", "?", "#"}

\* the literal part of the pattern for one category: instagram\.com\/<cat>\/
PatternLiteral(cat) == sHOST \o sSLASH \o cat \o sSLASH

\* the pattern matches with its literal starting at position i
MatchAt(url, lit, i) ==
  /\ i + Len(lit) <= Len(url)
  /\ SubSeq(url, i, i + Len(lit) - 1) = lit
  /\ url[i + Len(lit)] \notin StopChars

\* the greedy capture group ([^/?#]+) starting at position j
Capture(url, j) ==
  LET e == CHOOSE e \in j..Len(url) :
             /\ \A k \in j..e : url[k] \notin StopChars
             /\ (e = Len(url) \/ url[e + 1] \in StopChars)
  IN SubSeq(url, j, e)

\* url.match(pattern): leftmost match, or null
PatternMatch(url, cat) ==
  LET lit == PatternLiteral(cat)
      hits == {i \in 1..Len(url) : MatchAt(url, lit, i)}
  IN IF hits = {}
       THEN [matched |-> FALSE, group |-> <<>>]
       ELSE LET i == CHOOSE i \in hits : \A j \in hits : i <= j
            IN [matched |-> TRUE, group |-> Capture(url, i + Len(lit))]

RECURSIVE FirstPattern(_, _)
FirstPattern(url, n) ==
  IF n > Len(Categories)
    THEN [matched |-> FALSE, group |-> <<>>]
    ELSE LET m == PatternMatch(url, Categories[n])
         IN IF m.matched THEN m ELSE FirstPattern(url, n + 1)

\* returns the captured identifier, or matched = FALSE for null
extractShortcode(url) == FirstPattern(url, 1)

(***************************************************************************)
(* isValidInstagramUrl                                                     *)
(***************************************************************************)
\* prepend the default scheme when the string carries none
WithScheme(s) ==
  IF ~StartsWith(s, sHTTP) /\ ~StartsWith(s, sHTTPS) THEN sHTTPS \o s ELSE s

\* /^https?:\/\/(www\.)?instagram\.com\/(p|reel|tv|stories)\/[\w-]+/i
instagramPattern(s) ==
  LET low == LowerSeq(s)
  IN \E scheme \in {sHTTP, sHTTPS}, w \in {<<>>, sWWW}, n \in DOMAIN Categories :
       LET pre == scheme \o w \o sHOST \o sSLASH \o Categories[n] \o sSLASH
       IN /\ StartsWith(low, pre)
          /\ Len(s) > Len(pre)
          /\ (WordChar(s[Len(pre) + 1]) \/ s[Len(pre) + 1] = "-")

\* a plausible slip: the pattern only looks for the host name
LooseValid(u) ==
  IF Falsy(u) THEN [kind |-> "return", value |-> FALSE]
  ELSE IF u.t # "string" THEN [kind |-> "throw", value |-> FALSE]
  ELSE [kind |-> "return",
        value |-> \E i \in 1..Len(u.s) :
                     /\ i + Len(sHOST) - 1 <= Len(u.s)
                     /\ SubSeq(LowerSeq(u.s), i, i + Len(sHOST) - 1) = sHOST]

\* returns a boolean, or throws a TypeError when url has no startsWith
isValidInstagramUrl(u) ==
  IF Falsy(u) THEN [kind |-> "return", value |-> FALSE]
  ELSE IF u.t # "string" THEN [kind |-> "throw", value |-> FALSE]
  ELSE [kind |-> "return", value |-> instagramPattern(WithScheme(u.s))]

(***************************************************************************)
(* Results of a call: a returned value, a thrown error, or (inside the     *)
(* pipeline) nothing yet                                                   *)
(***************************************************************************)
NoDesc == [downloadUrl |-> Undefined, thumbnailUrl |-> Undefined, type |-> Undefined]

\* an Error object: constructor name, code, status of error.response (0 when
\* the error carries no response) and message
Err(name, code, status, message) ==
  [name |-> name, code |-> code, status |-> status, message |-> message]

NoErr == Err(Undefined, Undefined, 0, Undefined)

TypeError == Err("TypeError", Undefined, 0, "Cannot read properties of undefined")
SyntaxError == Err("SyntaxError", Undefined, 0, "Unexpected token in JSON")

Return(d) == [kind |-> "return", truthy |-> TRUE, desc |-> d, err |-> NoErr]
Throw(e) == [kind |-> "throw", truthy |-> FALSE, desc |-> NoDesc, err |-> e]
None == [kind |-> "none", truthy |-> FALSE, desc |-> NoDesc, err |-> NoErr]

(***************************************************************************)
(* extractMediaData                                                        *)
(***************************************************************************)
NoSidecar == [present |-> FALSE, edges |-> <<>>]
Sidecar(edges) == [present |-> TRUE, edges |-> edges]

Media(v, vu, du, sc) ==
  [defined |-> TRUE, is_video |-> v, video_url |-> vu, display_url |-> du, sidecar |-> sc]

\* the value of a path that ends in a missing property
NullMedia ==
  [defined |-> FALSE, is_video |-> FALSE, video_url |-> Undefined,
   display_url |-> Undefined, sidecar |-> NoSidecar]

extractMediaData(media) ==
  IF ~media.defined THEN Throw(TypeError)
  ELSE IF media.is_video
    THEN Return([downloadUrl |-> media.video_url,
                 thumbnailUrl |-> media.display_url, type |-> "video"])
  ELSE IF media.sidecar.present
    THEN IF Len(media.sidecar.edges) = 0 THEN Throw(TypeError)
         ELSE LET firstItem == media.sidecar.edges[1]
              IN Return([downloadUrl |-> firstItem.display_url,
                         thumbnailUrl |-> firstItem.display_url,
                         type |-> IF firstItem.is_video THEN "video" ELSE "image"])
  ELSE Return([downloadUrl |-> media.display_url,
               thumbnailUrl |-> media.display_url, type |-> "image"])

(***************************************************************************)
(* The fetched page, as the pipeline observes it.  A script element is     *)
(* described by what each test, match and parse of the pipeline finds in   *)
(* its text:                                                               *)
(*   shared  "none"      the text does not include window._sharedData      *)
(*           "nomatch"   it does, but the assignment pattern does not match*)
(*           "badjson"   the captured text is not JSON                     *)
(*           "noentry"   the data has no entry_data.PostPage               *)
(*           "emptypage" PostPage[0].graphql cannot be read                *)
(*           "ok"        the path leads to sharedMedia                     *)
(*   alt     "none"      the text does not include "shortcode_media"       *)
(*           "nomatch"   it does, but the object pattern does not match    *)
(*           "badjson"   the captured text is not JSON                     *)
(*           "ok"        the captured text parses to altMedia              *)
(***************************************************************************)
Script(type, shared, sharedMedia, alt, altMedia) ==
  [type |-> type, shared |-> shared, sharedMedia |-> sharedMedia,
   alt |-> alt, altMedia |-> altMedia]

Page(scripts, ogVideo, ogImage) ==
  [scripts |-> scripts, ogVideo |-> ogVideo, ogImage |-> ogImage]

IsJavaScript(s) == s.type = "text/javascript"

\* $('script[type="text/javascript"]')
scriptTags(html) == SelectSeq(html.scripts, IsJavaScript)

\* the body of the first try block, before its catch
SharedDataBody(s) ==
  CASE s.shared = "nomatch" -> Throw(TypeError)
    [] s.shared = "badjson" -> Throw(SyntaxError)
    [] s.shared = "noentry" -> None
    [] s.shared = "emptypage" -> Throw(TypeError)
    [] s.shared = "ok" -> extractMediaData(s.sharedMedia)

\* a plausible slip: the try block without its catch
UncaughtSharedData(s) ==
  IF s.shared = "none" THEN None ELSE SharedDataBody(s)

\* the legacy embedded-state strategy on one script element
TrySharedData(s) ==
  IF s.shared = "none" THEN None
  ELSE LET r == SharedDataBody(s)
       IN IF r.kind = "throw" THEN None ELSE r

\* the body of the second try block, before its catch
ShortcodeMediaBody(s) ==
  CASE s.alt = "nomatch" -> None
    [] s.alt = "badjson" -> Throw(SyntaxError)
    [] s.alt = "ok" -> extractMediaData(s.altMedia)

\* the alternate embedded-object strategy on one script element
TryShortcodeMedia(s) ==
  IF s.alt = "none" THEN None
  ELSE LET r == ShortcodeMediaBody(s)
       IN IF r.kind = "throw" THEN None ELSE r

\* the loop over the script elements, from element i on
RECURSIVE ScanScripts(_, _)
ScanScripts(tags, i) ==
  IF i > Len(tags) THEN None
  ELSE LET a == TrySharedData(tags[i])
       IN IF a.kind # "none" THEN a
          ELSE LET b == TryShortcodeMedia(tags[i])
               IN IF b.kind # "none" THEN b
                  ELSE ScanScripts(tags, i + 1)

\* truthiness of an attribute value
Truthy(v) == v # Undefined /\ v # ""

ExtractionFailed == Err("Error", Undefined, 0, "Could not extract media data from the post")

\* a plausible slip: the thumbnail of a video ignores og:image
VideoOnlyMetaFallback(html) ==
  IF Truthy(html.ogVideo)
    THEN Return([downloadUrl |-> html.ogVideo,
                 thumbnailUrl |-> html.ogVideo, type |-> "video"])
  ELSE IF Truthy(html.ogImage)
    THEN Return([downloadUrl |-> html.ogImage,
                 thumbnailUrl |-> html.ogImage, type |-> "image"])
  ELSE Throw(ExtractionFailed)

\* the meta-tag fallback and the final throw
MetaFallback(html) ==
  IF Truthy(html.ogVideo)
    THEN Return([downloadUrl |-> html.ogVideo,
                 thumbnailUrl |-> IF Truthy(html.ogImage) THEN html.ogImage
                                  ELSE html.ogVideo,
                 type |-> "video"])
  ELSE IF Truthy(html.ogImage)
    THEN Return([downloadUrl |-> html.ogImage,
                 thumbnailUrl |-> html.ogImage, type |-> "image"])
  ELSE Throw(ExtractionFailed)

\* everything scrapeInstagramPost does with the response body
ExtractionPipeline(html) ==
  LET r == ScanScripts(scriptTags(html), 1)
  IN IF r.kind # "none" THEN r ELSE MetaFallback(html)

(***************************************************************************)
(* scrapeInstagramPost                                                     *)
(***************************************************************************)
NoPage == Page(<<>>, Undefined, Undefined)

\* how axios.get settles: a 2xx response with its body, or a rejection
Fulfilled(html) == [ok |-> TRUE, html |-> html, err |-> NoErr]
Rejected(e) == [ok |-> FALSE, html |-> NoPage, err |-> e]
NoOutcome == [ok |-> FALSE, html |-> NoPage, err |-> NoErr]

InvalidFormat == Err("Error", Undefined, 0, "Invalid Instagram URL format")

\* the part before the await: throws, or issues the GET
ScrapePrelude(postUrl) ==
  IF extractShortcode(WithScheme(postUrl)).matched
    THEN [kind |-> "get", url |-> WithScheme(postUrl), err |-> NoErr]
    ELSE [kind |-> "throw", url |-> <<>>, err |-> InvalidFormat]

\* the part after the await; the catch block rethrows what it caught
ScrapeResume(o) ==
  IF ~o.ok THEN Throw(o.err) ELSE ExtractionPipeline(o.html)

(***************************************************************************)
(* app.post('/api/download')                                               *)
(***************************************************************************)
\* an HTTP response; a key that the JSON body does not carry is Undefined
Response(status, error, success, d) ==
  [status |-> status, error |-> error, success |-> success,
   downloadUrl |-> d.downloadUrl, thumbnailUrl |-> d.thumbnailUrl, type |-> d.type]

NoResponse == Response(0, Undefined, FALSE, NoDesc)

ErrorResponse(status, message) == Response(status, message, FALSE, NoDesc)

\* a plausible slip: a refused connection is not recognised
StatusWithoutRefused(e) ==
  IF e.code = "ENOTFOUND" THEN 503
  ELSE IF e.status = 404 THEN 404
  ELSE IF e.status = 429 THEN 429
  ELSE 500

\* the status chosen by the catch block of the handler
StatusForError(e) ==
  IF e.code = "ENOTFOUND" \/ e.code = "ECONNREFUSED" THEN 503
  ELSE IF e.status = 404 THEN 404
  ELSE IF e.status = 429 THEN 429
  ELSE 500

MessageForStatus(status) ==
  CASE status = 503 -> "Network error. Please check your internet connection and try again."
    [] status = 404 -> "Post not found. The URL may be incorrect or the post may have been deleted."
    [] status = 429 -> "Too many requests. Please wait a moment and try again."
    [] status = 500 -> "Failed to process the request. Please try again later."

\* the catch block of the handler
CatchResponse(e) ==
  ErrorResponse(StatusForError(e), MessageForStatus(StatusForError(e)))

\* what the handler sends once scrapeInstagramPost has settled
ResultResponse(r) ==
  IF r.kind = "throw" THEN CatchResponse(r.err)
  ELSE IF r.truthy THEN Response(200, Undefined, TRUE, r.desc)
  ELSE ErrorResponse(404,
         "Could not retrieve content. The post may be private, deleted, or not supported.")

\* the handler up to its first suspension: it responds, or awaits the GET
HandlerStart(u) ==
  IF Falsy(u)
    THEN [next |-> "done", resp |-> ErrorResponse(400, "URL is required")]
  ELSE LET v == isValidInstagramUrl(u)
       IN IF v.kind = "throw"
            THEN [next |-> "done", resp |-> CatchResponse(TypeError)]
          ELSE IF ~v.value
            THEN [next |-> "done",
                  resp |-> ErrorResponse(400,
                    "Please provide a valid Instagram URL (post, reel, stories, or IGTV)")]
          ELSE LET p == ScrapePrelude(u.s)
               IN IF p.kind = "throw"
                    THEN [next |-> "done", resp |-> CatchResponse(p.err)]
                    ELSE [next |-> "awaiting", resp |-> NoResponse]

(***************************************************************************)
(* Inputs                                                                  *)
(***************************************************************************)
sID == <<"A","B","C","1","2","3">>
sEXPLORE == <<"e","x","p","l","o","r","e">>
sEXAMPLE == <<"e","x","a","m","p","l","e",".","c","o","m">>
sHOSTCAP == <<"I","n","s","t","a","g","r","a","m",".","c","o","m">>
sHOSTX == <<"i","n","s","t","a","g","r","a","m","X","c","o","m">>
sFTP == <<"f","t","p",":","/","/">>
sHTTPSCAP == <<"H","T","T","P","S",":","/","/">>
sWWWCAP == <<"W","W","W",".">>
sMOBILE == <<"m",".">>
sREELCAP == <<"R","E","E","L">>

\* strings the validator rejects
RejectedUrls ==
  { sHTTPS \o sHOST \o sSLASH \o sEXPLORE \o sSLASH,
    sHTTPS \o sEXAMPLE \o sSLASH \o sP \o sSLASH \o sID,
    sHOST \o sSLASH \o sP \o sSLASH,
    sHTTPS \o sHOST \o sSLASH \o sP \o sSLASH \o sSLASH,
    sHTTPS \o sHOST \o sSLASH \o sREEL \o sSLASH \o <<"?">> \o sID,
    sHTTPS \o sHOST \o sSLASH \o sTV \o sSLASH \o <<"#">>,
    sHTTPS \o sHOST \o sSLASH \o sTV,
    sHTTPS \o sHOST \o sSLASH \o sID,
    sHTTPS \o sHOST,
    sHTTPS \o sHOSTX \o sSLASH \o sP \o sSLASH \o sID,
    sFTP \o sHOST \o sSLASH \o sP \o sSLASH \o sID,
    sHTTPSCAP \o sHOST \o sSLASH \o sP \o sSLASH \o sID,
    sHTTPS \o sMOBILE \o sHOST \o sSLASH \o sP \o sSLASH \o sID,
    sHTTPS \o sWWW \o sWWW \o sHOST \o sSLASH \o sP \o sSLASH \o sID,
    sHTTPS \o sEXAMPLE \o sSLASH \o <<"?">> \o sHOST \o sSLASH \o sP \o sSLASH \o sID,
    sWWW \o sHOST \o sSLASH \o sSTORIES,
    sHOST \o sSLASH \o sSLASH \o sP \o sSLASH \o sID,
    sID }

\* strings the validator accepts
AcceptedUrls ==
  { sHTTPS \o sWWW \o sHOST \o sSLASH \o sP \o sSLASH \o sID \o sSLASH,
    sHOST \o sSLASH \o sREEL \o sSLASH \o sID,
    sHTTP \o sHOST \o sSLASH \o sTV \o sSLASH \o <<"-">> \o <<"?">> \o sID,
    sWWW \o sHOST \o sSLASH \o sSTORIES \o sSLASH \o <<"_">> \o sSLASH \o sID,
    sHTTPS \o sHOSTCAP \o sSLASH \o sP \o sSLASH \o sID,
    sHTTPS \o sWWWCAP \o sHOST \o sSLASH \o sREELCAP \o sSLASH \o sID }

\* the values of req.body.url
Bodies == {Missing, Str(<<>>), Num5} \cup {Str(s) : s \in RejectedUrls \cup AcceptedUrls}

\* media graphs found in pages
LVideo == Media(TRUE, "legacy.mp4", "legacy.jpg", NoSidecar)
LNoDisplay == Media(FALSE, Undefined, Undefined, NoSidecar)
LEmptyCarousel == Media(FALSE, Undefined, "legacy.jpg", Sidecar(<<>>))
AImage == Media(FALSE, Undefined, "alt.jpg", NoSidecar)

JS == "text/javascript"

\* script elements of the recognised type; a block that parses contains the
\* key "shortcode_media" in its text
JsScripts ==
  { Script(JS, "none", NullMedia, "none", NullMedia),
    Script(JS, "nomatch", NullMedia, "none", NullMedia),
    Script(JS, "badjson", NullMedia, "none", NullMedia),
    Script(JS, "noentry", NullMedia, "none", NullMedia),
    Script(JS, "emptypage", NullMedia, "none", NullMedia),
    Script(JS, "none", NullMedia, "nomatch", NullMedia),
    Script(JS, "none", NullMedia, "badjson", NullMedia),
    Script(JS, "none", NullMedia, "ok", AImage),
    Script(JS, "badjson", NullMedia, "ok", AImage),
    Script(JS, "ok", LVideo, "nomatch", NullMedia),
    Script(JS, "ok", LVideo, "ok", AImage),
    Script(JS, "ok", LNoDisplay, "nomatch", NullMedia),
    Script(JS, "ok", LEmptyCarousel, "badjson", NullMedia),
    Script(JS, "ok", LEmptyCarousel, "ok", AImage) }

\* a script element of another type, which the selector leaves out
OtherScripts == { Script("application/ld+json", "ok", LVideo, "ok", AImage) }

MetaValues == {Undefined, ""}

SeqUpTo(S, n) == UNION {[1..k -> S] : k \in 0..n}

\* the pages given to the pipeline on its own
PagesAll ==
  { Page(sc, v, i) : sc \in SeqUpTo(JsScripts \cup OtherScripts, MaxScripts),
                     v \in MetaValues \cup {"meta.mp4"},
                     i \in MetaValues \cup {"meta.jpg"} }

\* the pages served to the handler
Pages ==
  { Page(<<>>, Undefined, Undefined),
    Page(<<Script(JS, "badjson", NullMedia, "none", NullMedia)>>, "", Undefined),
    Page(<<Script(JS, "ok", LNoDisplay, "nomatch", NullMedia)>>, Undefined, "meta.jpg"),
    Page(<<>>, "meta.mp4", Undefined) }

\* the rejections of axios.get
AxiosErrors ==
  { Err("AxiosError", "ENOTFOUND", 0, "getaddrinfo ENOTFOUND"),
    Err("AxiosError", "ECONNREFUSED", 0, "connect ECONNREFUSED"),
    Err("AxiosError", "ECONNABORTED", 0, "timeout of 30000ms exceeded"),
    Err("AxiosError", "ERR_BAD_REQUEST", 404, "Request failed with status code 404"),
    Err("AxiosError", "ERR_BAD_REQUEST", 429, "Request failed with status code 429"),
    Err("AxiosError", "ERR_BAD_RESPONSE", 500, "Request failed with status code 500") }

Outcomes == {Rejected(e) : e \in AxiosErrors} \cup {Fulfilled(h) : h \in Pages}

\* the media graphs given to the normalizer on its own
Nodes == [is_video : BOOLEAN, display_url : {"child1.jpg", "child2.jpg", Undefined}]

MediaAll ==
  { Media(v, vu, du, sc) :
      v \in BOOLEAN, vu \in {"video.mp4", Undefined}, du \in {"display.jpg", Undefined},
      sc \in {NoSidecar} \cup {Sidecar(e) : e \in SeqUpTo(Nodes, MaxEdges)} }
  \cup {NullMedia}

(***************************************************************************)
(* The serving process: one handler instance per request                   *)
(***************************************************************************)
NoCall == [fn |-> "none", media |-> NullMedia, html |-> NoPage]
NoRet == [done |-> FALSE, result |-> None]

Init ==
  /\ pc = [r \in Req |-> "idle"]
  /\ body = [r \in Req |-> Missing]
  /\ gets = [r \in Req |-> 0]
  /\ outcome = [r \in Req |-> NoOutcome]
  /\ resp = [r \in Req |-> NoResponse]
  /\ sent = [r \in Req |-> 0]
  /\ call = NoCall
  /\ ret = NoRet

\* the two halves of the handler, tabulated over the inputs
HandlerStartOn == [u \in Bodies |-> HandlerStart(u)]
HandlerEndOn == [o \in Outcomes |-> ResultResponse(ScrapeResume(o))]

\* a request arrives and its handler runs until it responds or suspends
ReceiveRequest(r) ==
  /\ pc[r] = "idle"
  /\ \E u \in Bodies :
       LET h == HandlerStartOn[u]
       IN /\ body' = [body EXCEPT ![r] = u]
          /\ pc' = [pc EXCEPT ![r] = h.next]
          /\ resp' = [resp EXCEPT ![r] = h.resp]
          /\ sent' = [sent EXCEPT ![r] = IF h.next = "done" THEN @ + 1 ELSE @]
          /\ gets' = [gets EXCEPT ![r] = IF h.next = "awaiting" THEN @ + 1 ELSE @]
  /\ UNCHANGED <<outcome, call, ret>>

\* the GET of a suspended handler settles and the handler runs to its end
FetchSettles(r) ==
  /\ pc[r] = "awaiting"
  /\ \E o \in Outcomes :
       /\ outcome' = [outcome EXCEPT ![r] = o]
       /\ resp' = [resp EXCEPT ![r] = HandlerEndOn[o]]
  /\ sent' = [sent EXCEPT ![r] = @ + 1]
  /\ pc' = [pc EXCEPT ![r] = "done"]
  /\ UNCHANGED <<body, gets, call, ret>>

Next == \E r \in Req : ReceiveRequest(r) \/ FetchSettles(r)

Spec == Init /\ [][Next]_vars

(***************************************************************************)
(* The pure parts on their own: the normalizer on a media graph, the       *)
(* pipeline on a fetched page                                              *)
(***************************************************************************)
Calls ==
  {[fn |-> "extractMediaData", media |-> m, html |-> NoPage] : m \in MediaAll}
  \cup {[fn |-> "ExtractionPipeline", media |-> NullMedia, html |-> h] : h \in PagesAll}

InitPure ==
  /\ pc = [r \in Req |-> "idle"]
  /\ body = [r \in Req |-> Missing]
  /\ gets = [r \in Req |-> 0]
  /\ outcome = [r \in Req |-> NoOutcome]
  /\ resp = [r \in Req |-> NoResponse]
  /\ sent = [r \in Req |-> 0]
  /\ call \in Calls
  /\ ret = NoRet

ApplyNormalizer ==
  /\ call.fn = "extractMediaData"
  /\ ~ret.done
  /\ ret' = [done |-> TRUE, result |-> extractMediaData(call.media)]
  /\ UNCHANGED <<pc, body, gets, outcome, resp, sent, call>>

ApplyPipeline ==
  /\ call.fn = "ExtractionPipeline"
  /\ ~ret.done
  /\ ret' = [done |-> TRUE, result |-> ExtractionPipeline(call.html)]
  /\ UNCHANGED <<pc, body, gets, outcome, resp, sent, call>>

NextPure == ApplyNormalizer \/ ApplyPipeline

SpecPure == InitPure /\ [][NextPure]_vars

(***************************************************************************)
(* Properties of the handler                                               *)
(***************************************************************************)
\* the accepted URL shape: optional scheme, optional www., the host in any
\* letter case, one of the four category tokens, then an identifier that
\* starts with a word character or a hyphen
AcceptedPrefixes ==
  { scheme \o w \o sHOST \o sSLASH \o c \o sSLASH :
      scheme \in {sHTTP, sHTTPS}, w \in {<<>>, sWWW}, c \in Range(Categories) }

AcceptedShape(s) ==
  LET n == IF StartsWith(s, sHTTP) \/ StartsWith(s, sHTTPS) THEN s ELSE sHTTPS \o s
      low == LowerSeq(n)
  IN \E p \in AcceptedPrefixes :
       /\ StartsWith(low, p)
       /\ Len(n) > Len(p)
       /\ n[Len(p) + 1] \in WordChars \cup {"-"}

AcceptedShapeOn == [u \in Bodies |-> u.t = "string" /\ AcceptedShape(u.s)]

ValidatorAcceptsOn ==
  [u \in Bodies |-> isValidInstagramUrl(u).kind = "return" /\ isValidInstagramUrl(u).value]

\* no strategy of the pipeline finds a descriptor in the page
NoStrategyYields(html) ==
  /\ \A i \in DOMAIN scriptTags(html) :
       /\ TrySharedData(scriptTags(html)[i]).kind = "none"
       /\ TryShortcodeMedia(scriptTags(html)[i]).kind = "none"
  /\ ~Truthy(html.ogVideo)
  /\ ~Truthy(html.ogImage)

\* C1: a request whose fetch succeeds but whose page yields a descriptor from
\* no strategy is answered with HTTP 404 and an error body.
C1_ExtractionFailedIs404 ==
  \A r \in Req :
    (pc[r] = "done" /\ outcome[r].ok /\ NoStrategyYields(outcome[r].html))
      => (resp[r].status = 404 /\ resp[r].error # Undefined)

\* C5: every success response carries a present downloadUrl, a present
\* thumbnailUrl and a type that is image or video.
C5_SuccessCarriesUrls ==
  \A r \in Req :
    resp[r].success
      => /\ resp[r].downloadUrl # Undefined
         /\ resp[r].thumbnailUrl # Undefined
         /\ resp[r].type \in {"image", "video"}

\* C7: a request whose url is missing, empty, or a string of none of the
\* accepted shapes is answered with HTTP 400 and an error body, and no GET
\* is issued for it.
C7_InvalidInputIs400 ==
  \A r \in Req :
    (pc[r] # "idle" /\ body[r].t \in {"undefined", "string"} /\ ~AcceptedShapeOn[body[r]])
      => /\ pc[r] = "done"
         /\ resp[r].status = 400
         /\ resp[r].error # Undefined
         /\ ~resp[r].success
         /\ sent[r] = 1
         /\ gets[r] = 0

\* a string of a wrong shape that names the host has been rejected, next to
\* a missing url
C7_Witness ==
  \E r, q \in Req :
    /\ pc[r] = "done" /\ body[r] = Str(sHTTPS \o sHOST \o sSLASH \o sEXPLORE \o sSLASH)
    /\ resp[r].status = 400 /\ gets[r] = 0
    /\ pc[q] = "done" /\ body[q] = Missing /\ resp[q].status = 400

\* the status the taxonomy gives to a failure of the fetch
FailureCategory(e) ==
  IF e.code \in {"ENOTFOUND", "ECONNREFUSED"} THEN "UpstreamUnreachable"
  ELSE IF e.status = 404 THEN "UpstreamNotFound"
  ELSE IF e.status = 429 THEN "UpstreamThrottled"
  ELSE "Unknown"

CategoryStatus ==
  [UpstreamUnreachable |-> 503, UpstreamNotFound |-> 404,
   UpstreamThrottled |-> 429, Unknown |-> 500]

FetchFailed(r) == pc[r] = "done" /\ gets[r] = 1 /\ ~outcome[r].ok

C8_StatusByCategory ==
  \A r \in Req :
    FetchFailed(r)
      => /\ resp[r].status = CategoryStatus[FailureCategory(outcome[r].err)]
         /\ resp[r].error # Undefined
         /\ ~resp[r].success
         /\ sent[r] = 1

C8_OthersUntouched ==
  \A r \in Req :
    (pc[r] = "awaiting" /\ pc'[r] = "done" /\ ~outcome'[r].ok)
      => \A q \in Req \ {r} :
           /\ pc'[q] = pc[q] /\ body'[q] = body[q] /\ gets'[q] = gets[q]
           /\ outcome'[q] = outcome[q] /\ resp'[q] = resp[q] /\ sent'[q] = sent[q]

\* C8: a request whose fetch fails gets exactly one error response whose
\* status is 503 for a DNS failure or a refused connection, 404 for an
\* upstream 404, 429 for an upstream 429 and 500 for anything else; the step
\* that handles the failure changes nothing of any other request.
C8_FetchFailureStatus == []C8_StatusByCategory /\ [][C8_OthersUntouched]_vars

\* a refused connection was answered with 503 while another request, whose
\* fetch timed out, was answered with 500
C8_Witness ==
  \E r, q \in Req :
    /\ FetchFailed(r) /\ outcome[r].err.code = "ECONNREFUSED" /\ resp[r].status = 503
    /\ FetchFailed(q) /\ outcome[q].err.code = "ECONNABORTED" /\ resp[q].status = 500

\* C10: for a request whose url the validator accepts, exactly one GET is
\* attempted.
C10_AcceptedUrlOneGet ==
  \A r \in Req :
    (pc[r] # "idle" /\ ValidatorAcceptsOn[body[r]]) => gets[r] = 1

(***************************************************************************)
(* Properties of the pipeline and of the normalizer                        *)
(***************************************************************************)
PipelineDone == call.fn = "ExtractionPipeline" /\ ret.done

NormalizerDone == call.fn = "extractMediaData" /\ ret.done

tags == scriptTags(call.html)

\* a legacy block whose path leads to a media graph the normalizer accepts
WellFormedLegacy(s) ==
  s.shared = "ok" /\ s.sharedMedia.defined /\ extractMediaData(s.sharedMedia).kind = "return"

\* an alternate object that parses to a media graph the normalizer accepts
UsableAlt(s) ==
  s.alt = "ok" /\ s.altMedia.defined /\ extractMediaData(s.altMedia).kind = "return"

\* a legacy block whose marker is present but which does not match, does not
\* parse, or lacks the post-page path
MalformedLegacy(s) == s.shared \in {"nomatch", "badjson", "noentry", "emptypage"}

\* a meta value that is there and not empty
Present(v) == v # Undefined /\ v # ""

\* the descriptor the meta-tag rule gives
MetaDescriptor(html) ==
  IF Present(html.ogVideo)
    THEN [downloadUrl |-> html.ogVideo,
          thumbnailUrl |-> IF Present(html.ogImage) THEN html.ogImage ELSE html.ogVideo,
          type |-> "video"]
    ELSE [downloadUrl |-> html.ogImage, thumbnailUrl |-> html.ogImage, type |-> "image"]

\* C2: a page that contains a well-formed legacy block yields the descriptor
\* the normalizer produces for the media graph of that block (the first such
\* block), whatever meta tags are present.
C2_LegacyBeatsMeta ==
  (PipelineDone /\ \E i \in DOMAIN tags : WellFormedLegacy(tags[i]))
    => LET first == CHOOSE i \in DOMAIN tags :
                      /\ WellFormedLegacy(tags[i])
                      /\ \A j \in DOMAIN tags : WellFormedLegacy(tags[j]) => i <= j
       IN ret.result = extractMediaData(tags[first].sharedMedia)

MalformedLegacyPage ==
  /\ \E i \in DOMAIN tags : MalformedLegacy(tags[i])
  /\ \A i \in DOMAIN tags : tags[i].shared # "none" => MalformedLegacy(tags[i])

ValidMeta == Present(call.html.ogVideo) \/ Present(call.html.ogImage)

\* C3 as stated: a page whose legacy block is malformed and which carries a
\* valid og:video or og:image yields the meta-tag descriptor.
C3_MalformedLegacyGivesMeta ==
  (PipelineDone /\ MalformedLegacyPage /\ ValidMeta)
    => ret.result = Return(MetaDescriptor(call.html))

\* C3, amended: a page whose legacy block is malformed, which carries a valid
\* og:video or og:image, and in which no script block holds a usable
\* alternate object yields the meta-tag descriptor, and no error.
C3_MalformedLegacyNoAltGivesMeta ==
  (/\ PipelineDone /\ MalformedLegacyPage /\ ValidMeta
   /\ \A i \in DOMAIN tags : ~UsableAlt(tags[i]))
    => ret.result = Return(MetaDescriptor(call.html))

\* a page with a block that is not JSON and an og:image has given the image
C3_Witness ==
  /\ PipelineDone /\ MalformedLegacyPage /\ ValidMeta
  /\ \A i \in DOMAIN tags : ~UsableAlt(tags[i])
  /\ \E i \in DOMAIN tags : tags[i].shared = "badjson"
  /\ ret.result.kind = "return"
  /\ ret.result.desc.downloadUrl = "meta.jpg"

\* what the normalizer rule gives for a media graph with a display URL
NormalizerRule(m) ==
  IF m.is_video
    THEN Return([downloadUrl |-> m.video_url, thumbnailUrl |-> m.display_url,
                 type |-> "video"])
  ELSE IF m.sidecar.present /\ Len(m.sidecar.edges) > 0
    THEN Return([downloadUrl |-> m.sidecar.edges[1].display_url,
                 thumbnailUrl |-> m.sidecar.edges[1].display_url,
                 type |-> IF m.sidecar.edges[1].is_video THEN "video" ELSE "image"])
  ELSE Return([downloadUrl |-> m.display_url, thumbnailUrl |-> m.display_url,
               type |-> "image"])

\* C4: for a media graph with a display URL the normalizer returns the video
\* descriptor, else the descriptor of the first child of a non-empty
\* carousel, else (no carousel or an empty one) the image descriptor.
C4_NormalizerRule ==
  (NormalizerDone /\ call.media.defined /\ call.media.display_url # Undefined)
    => ret.result = NormalizerRule(call.media)

NoScriptMetadata ==
  \A i \in DOMAIN tags : tags[i].shared = "none" /\ tags[i].alt = "none"

\* C6: for a page with no script metadata, og:video = V gives downloadUrl V,
\* thumbnailUrl the og:image value or else V, type video; otherwise
\* og:image = I gives downloadUrl I, thumbnailUrl I, type image.
C6_MetaFallbackRule ==
  (PipelineDone /\ NoScriptMetadata)
    => /\ Present(call.html.ogVideo)
            => ret.result =
                 Return([downloadUrl |-> call.html.ogVideo,
                         thumbnailUrl |-> IF Present(call.html.ogImage)
                                            THEN call.html.ogImage
                                            ELSE call.html.ogVideo,
                         type |-> "video"])
       /\ (~Present(call.html.ogVideo) /\ Present(call.html.ogImage))
            => ret.result =
                 Return([downloadUrl |-> call.html.ogImage,
                         thumbnailUrl |-> call.html.ogImage, type |-> "image"])

\* og:video alone has given a video whose thumbnail is the video URL
C6_Witness ==
  /\ PipelineDone /\ NoScriptMetadata
  /\ call.html.ogVideo = "meta.mp4" /\ call.html.ogImage = Undefined
  /\ ret.result = Return([downloadUrl |-> "meta.mp4", thumbnailUrl |-> "meta.mp4",
                          type |-> "video"])

\* C9: when the page holds both a well-formed legacy block and a usable
\* alternate object, in whatever order, the result is derived from a legacy
\* block.
C9_LegacyBeforeAlternate ==
  (/\ PipelineDone
   /\ \E i \in DOMAIN tags : WellFormedLegacy(tags[i])
   /\ \E i \in DOMAIN tags : UsableAlt(tags[i]))
    => \E i \in DOMAIN tags :
         /\ WellFormedLegacy(tags[i])
         /\ ret.result = extractMediaData(tags[i].sharedMedia)

====
